---- MODULE Spec2Model ----
\* Model of the OAuth2Client reconciler (controllers/oauth2client_controller.go):
\* one Reconcile pass per resource identity, stepped at its store and registry
\* calls so that passes of distinct resources interleave, the registry client
\* cache of getHydraClientForClient, and the environment that edits resources
\* and secrets between passes.
EXTENDS Naturals, Sequences, FiniteSets, TLC

\* ---------------------------------------------------------------- bounds
\* Largest metadata.generation a resource reaches (one spec edit per unit).
MaxGen == 2
\* Number of distinct client ids the registry side can allocate at one time.
MaxAlloc == 2

\* ------------------------------------------------------ program constants
ClientIDKey == "client_id"
ClientSecretKey == "client_secret"
FinalizerName == "finalizer.ory.hydra.sh"
DefaultNamespace == "default"

StatusRegistrationFailed == "CLIENT_REGISTRATION_FAILED"
StatusCreateSecretFailed == "SECRET_CREATION_FAILED"
StatusUpdateFailed == "CLIENT_UPDATE_FAILED"
StatusInvalidSecret == "INVALID_SECRET"
StatusInvalidHydraAddress == "INVALID_HYDRA_ADDRESS"

\* ------------------------------------------------------------ value sets
\* Resource names (request identities); every one lives in one namespace.
Res == {"a", "b"}
\* A key absent from secret.Data, a nil *string, a nil []byte.
Missing == "<nil>"
\* The id and password a user types into a secret by hand.
UserId == "x"
UserPw == "pw"
\* What the registry generates for a credential-less create.
GenPw == "gpw"
AllocIds == {"g" \o ToString(i) : i \in 1..MaxAlloc}
Ids == {UserId} \cup AllocIds

\* spec.hydraAdmin: the zero value (no custom endpoint) and one custom endpoint.
NoAdmin == [url |-> "", port |-> 0, endpoint |-> "", forwardedProto |-> ""]
Admin1 == [url |-> "http://hydra1", port |-> 4445, endpoint |-> "/clients", forwardedProto |-> "https"]
Admins == {NoAdmin, Admin1}
\* The registries behind the endpoints, named by url; "" is the one the default
\* client talks to.
Regs == {ad.url : ad \in Admins}

Scopes == {"s1", "s2"}
SecretNameOf(r) == r \o "-secret"
SecretNames == {SecretNameOf(r) : r \in Res}

\* The var oauth2client of Reconcile when r.Get returned NotFound: all fields zero.
ZeroObject ==
  [exists |-> FALSE, name |-> "", namespace |-> "", deleting |-> FALSE, finalizer |-> FALSE,
   generation |-> 0, observedGeneration |-> 0, code |-> "",
   scope |-> "", secretName |-> "", hydraAdmin |-> NoAdmin,
   metadataOK |-> TRUE, authMethod |-> ""]

\* A resource as first stored by its user (schema-valid: scope and secretName
\* are non-empty, generation 1, empty status).
NewObject(r, ns) ==
  [exists |-> TRUE, name |-> r, namespace |-> ns, deleting |-> FALSE, finalizer |-> FALSE,
   generation |-> 1, observedGeneration |-> 0, code |-> "",
   scope |-> "s1", secretName |-> SecretNameOf(r), hydraAdmin |-> NoAdmin,
   metadataOK |-> TRUE, authMethod |-> "client_secret_basic"]

\* What is left under a name once the store has removed the object.
GoneObject(r, ns) == [ZeroObject EXCEPT !.name = r, !.namespace = ns]

NoSecret == [present |-> FALSE, id |-> Missing, pw |-> Missing]
\* credentials == nil
NoCred == [nil |-> TRUE, id |-> Missing, pw |-> Missing]

VARIABLES
  store,          \* the OAuth2Client objects, by request name
  secrets,        \* the secrets, by secret name
  reg,            \* registry url -> (client id -> entry)
  oauth2Clients,  \* r.oauth2Clients: clientKey -> client instance
  made,           \* the clients the factory returned, in order; instance i is made[i]
  mu,             \* r.mu: "" when free, else the caller holding it
  HydraClient,    \* r.HydraClient # nil
  proc,           \* per resource: position and locals of its Reconcile pass
  world           \* what the surroundings of this run do: [edits, writes, faults]

vars == <<store, secrets, reg, oauth2Clients, made, mu, HydraClient, proc, world>>

\* ------------------------------------------------------------ pure helpers
\* fmt.Sprintf("%s/%s", c.Name, c.Namespace)
OwnerOf(c) == c.name \o "/" \o c.namespace

\* clientKey{url, port, endpoint, forwardedProto} built from spec.HydraAdmin
clientKey(spec) ==
  [url |-> spec.hydraAdmin.url, port |-> spec.hydraAdmin.port,
   endpoint |-> spec.hydraAdmin.endpoint, forwardedProto |-> spec.hydraAdmin.forwardedProto]

\* Mutant: the finalizer reported present on every object.
containsStringAlways(c) == TRUE

\* containsString(oauth2client.ObjectMeta.Finalizers, FinalizerName)
containsString(c) == c.finalizer

\* Mutant: client_secret demanded whatever the auth method.
parseSecretFailsStrict(secret, authMethod) == secret.id = Missing \/ secret.pw = Missing

\* parseSecret: the error cases, then the credentials
parseSecretFails(secret, authMethod) ==
  \/ secret.id = Missing
  \/ secret.pw = Missing /\ authMethod # "none"

parseSecret(secret) == [nil |-> FALSE, id |-> secret.id, pw |-> secret.pw]

\* hydra.FromOAuth2Client: json.Marshal(c.Spec.Metadata) fails or the payload
FromOAuth2ClientFails(c) == ~c.metadataOK

FromOAuth2Client(c) ==
  [id |-> Missing, secret |-> Missing, scope |-> c.scope, owner |-> OwnerOf(c)]

\* Mutant: only the id taken from the credentials, the password left out.
WithCredentialsIdOnly(oj, credentials) == [oj EXCEPT !.id = credentials.id]

\* OAuth2ClientJSON.WithCredentials
WithCredentials(oj, credentials) ==
  [oj EXCEPT !.id = credentials.id,
             !.secret = IF credentials.pw # Missing THEN credentials.pw ELSE @]

\* Mutant: the early return taken for the resources that do have their fields.
UnregisterSkipsInverted(c) == c.scope # "" \/ c.secretName = ""

\* unregisterOAuth2Clients returns at once when a required field is empty
UnregisterSkips(c) == c.scope = "" \/ c.secretName = ""

\* Mutant: the owner filter matching no entry, nothing is deleted.
OwnedByNobody(entry, c) == FALSE

\* the cJSON.Owner == "<name>/<namespace>" filter of unregisterOAuth2Clients
OwnedBy(entry, c) == entry.owner = OwnerOf(c)

\* Mutant: the owner test dropped, every fetched entry taken for one's own.
OwnerConflictDropped(fetched, c) == FALSE

\* the fetched.Owner != "<name>/<namespace>" test of Reconcile
OwnerConflict(fetched, c) == fetched.owner # OwnerOf(c)

\* Mutant: the short cut for an unchanged resource never taken.
UnchangedNever(c) == c.generation < c.observedGeneration

\* the Generation == Status.ObservedGeneration test of Reconcile
Unchanged(c) == c.generation = c.observedGeneration

\* Mutant: the namespace filter letting every request through.
OtherNamespaceNever(ns) == FALSE

\* the namespace filter of Reconcile
ControllerNamespace == DefaultNamespace
OtherNamespace(ns) == ControllerNamespace # "" /\ ns # ControllerNamespace

\* --------------------------------------------------------------- registry
\* The registry behind a client instance: 0 is r.HydraClient, i > 0 is made[i].
RegOf(inst) == IF inst = 0 THEN NoAdmin.url ELSE made[inst].url

RegHas(g, id) == id \in DOMAIN reg[g]

RegPut(g, id, e) ==
  [reg EXCEPT ![g] = [i \in DOMAIN reg[g] \cup {id} |-> IF i = id THEN e ELSE reg[g][i]]]

RegRemove(g, id) ==
  [reg EXCEPT ![g] = [i \in DOMAIN reg[g] \ {id} |-> reg[g][i]]]

EntryOf(oj) == [owner |-> oj.owner, scope |-> oj.scope, secret |-> oj.secret]

\* Ids referenced anywhere; a generated id is never one of these.
UsedIds ==
  UNION {DOMAIN reg[g] : g \in Regs}
  \cup {secrets[s].id : s \in SecretNames}
  \cup {proc[r].cred.id : r \in Res}
  \cup {proc[r].created.id : r \in Res}
  \cup UNION {proc[r].todo : r \in Res}

FreshIds == AllocIds \ UsedIds

FreshId == CHOOSE id \in FreshIds : TRUE

\* ------------------------------------------------------- client resolution
\* getHydraClientForClient, the whole critical section: the result and the
\* cache and factory log it leaves. factoryOk: whether r.oauth2ClientFactory
\* returns a client (it is only called on a miss).
getHydraClientForClient(c, factoryOk) ==
  IF c.hydraAdmin.url # ""
  THEN IF clientKey(c) \in DOMAIN oauth2Clients
       THEN [err |-> FALSE, inst |-> oauth2Clients[clientKey(c)],
             clients |-> oauth2Clients, made |-> made]
       ELSE IF factoryOk
            THEN [err |-> FALSE, inst |-> Len(made) + 1,
                  clients |-> [k \in DOMAIN oauth2Clients \cup {clientKey(c)} |->
                                 IF k = clientKey(c) THEN Len(made) + 1 ELSE oauth2Clients[k]],
                  made |-> Append(made, c.hydraAdmin)]
            ELSE [err |-> TRUE, inst |-> 0, clients |-> oauth2Clients, made |-> made]
  ELSE IF ~HydraClient
       THEN [err |-> TRUE, inst |-> 0, clients |-> oauth2Clients, made |-> made]
       ELSE [err |-> FALSE, inst |-> 0, clients |-> oauth2Clients, made |-> made]

\* ------------------------------------------------------------ the passes
\* Locals of one Reconcile pass, and what it saw and did (hadFinalizer, same:
\* the finalizer and generation == observedGeneration of the object as read;
\* ops: registry calls made; failed: calls that returned an error ("duplicate"
\* beside "post" when the registry held the id already); wrote:
\* status codes persisted; ret: "nil" or "err" once it has returned).
Idle ==
  [pc |-> "idle", zero |-> FALSE, cred |-> NoCred, hc |-> 0, ctx |-> "", todo |-> {},
   stCode |-> "", stNext |-> "", created |-> NoCred, found |-> FALSE, fetchedOwner |-> "",
   hadFinalizer |-> FALSE, same |-> FALSE, ops |-> {}, failed |-> {}, wrote |-> << >>, ret |-> ""]

\* The object the pass holds: the one it read, or the zero value.
Obj(r) == IF proc[r].zero THEN ZeroObject ELSE store[r]

Goto(r, p) == proc' = [proc EXCEPT ![r] = p]

\* The results a call can have in this run: success, and an error when the
\* run injects faults into that kind of call.
Outcomes(call) == IF call \in world.faults THEN BOOLEAN ELSE {TRUE}

Returns(p, result) == [p EXCEPT !.pc = "done", !.ret = result]

\* Mutant: the error of a failed call dropped, the pass returns nil.
FailsSwallowed(p, call) == [Returns(p, "nil") EXCEPT !.failed = @ \cup {call}]

\* "if err != nil { return ctrl.Result{}, err }" after a store or registry call
Fails(p, call) == [Returns(p, "err") EXCEPT !.failed = @ \cup {call}]

\* Mutant: the resolve error dropped, the caller returns nil.
ResolveFailureSwallowed(p) == Returns(p, "nil")

\* "if err != nil { return err }" after getHydraClientForClient in
\* unregisterOAuth2Clients, registerOAuth2Client, updateRegisteredOAuth2Client
ResolveFailed(p) == Returns(p, "err")

\* updateReconciliationStatusError(code) is next; after it the pass returns nil
\* ("nil"), returns the original error ("err") or goes on to
\* ensureEmptyStatusError ("clear").
ToStatus(p, code, next) == [p EXCEPT !.pc = "status", !.stCode = code, !.stNext = next]

\* Entering unregisterOAuth2Clients(c) from the not-found branch ("absent"),
\* the deletion branch ("delete") or registerOAuth2Client ("register"), and
\* where the caller goes on when it returns nil.
AfterUnregister(p) ==
  CASE p.ctx = "delete" -> [p EXCEPT !.pc = "removeFinalizer"]
    [] p.ctx = "register" -> [p EXCEPT !.pc = "registerResolve"]
    [] OTHER -> Returns(p, "nil")

EnterUnregister(p, c, ctx) ==
  IF UnregisterSkips(c)
  THEN AfterUnregister([p EXCEPT !.ctx = ctx])
  ELSE [p EXCEPT !.ctx = ctx, !.pc = "unregisterResolve"]

\* The watcher delivers the identities of objects it has seen in the store.
Known(r) == store[r].name # ""

\* Reconcile lines 125-178: r.Get, the namespace filter, the branch on
\* DeletionTimestamp and the finalizer.
ReconcileGet(r) ==
  /\ proc[r].pc = "idle"
  /\ Known(r)
  /\ UNCHANGED <<store, secrets, reg, oauth2Clients, made, mu, HydraClient, world>>
  /\ \E ok \in Outcomes("storeGet") :
       LET p == [Idle EXCEPT !.pc = "get", !.hadFinalizer = store[r].finalizer,
                            !.same = (store[r].generation = store[r].observedGeneration)] IN
       IF ~ok THEN Goto(r, Fails(p, "storeGet"))
       ELSE IF ~store[r].exists
            THEN Goto(r, EnterUnregister([p EXCEPT !.zero = TRUE], ZeroObject, "absent"))
       ELSE IF OtherNamespace(store[r].namespace) THEN Goto(r, Returns(p, "nil"))
       ELSE IF ~store[r].deleting
            THEN IF ~containsString(store[r])
                 THEN Goto(r, [p EXCEPT !.pc = "addFinalizer"])
                 ELSE Goto(r, [p EXCEPT !.pc = "getSecret"])
       ELSE IF containsString(store[r])
            THEN Goto(r, EnterUnregister(p, store[r], "delete"))
            ELSE Goto(r, Returns(p, "nil"))

\* Reconcile lines 150-158: append the finalizer and r.Update
AddFinalizer(r) ==
  /\ proc[r].pc = "addFinalizer"
  /\ UNCHANGED <<secrets, reg, oauth2Clients, made, mu, HydraClient, world>>
  /\ \E ok \in Outcomes("update") :
       IF ok
       THEN /\ store' = [store EXCEPT ![r].finalizer = TRUE]
            /\ Goto(r, [proc[r] EXCEPT !.pc = "getSecret"])
       ELSE /\ UNCHANGED store
            /\ Goto(r, Fails(proc[r], "update"))

\* Reconcile lines 180-198: r.Get of the secret, parseSecret
GetSecret(r) ==
  /\ proc[r].pc = "getSecret"
  /\ UNCHANGED <<store, secrets, reg, oauth2Clients, made, mu, HydraClient, world>>
  /\ \E ok \in Outcomes("secretGet") :
       LET p == proc[r]
           secret == secrets[store[r].secretName] IN
       IF ~ok THEN Goto(r, Fails(p, "secretGet"))
       ELSE IF ~secret.present
            THEN Goto(r, EnterUnregister(p, store[r], "register"))
       ELSE IF parseSecretFails(secret, store[r].authMethod)
            THEN Goto(r, ToStatus(p, StatusInvalidSecret, "nil"))
            ELSE Goto(r, [p EXCEPT !.cred = parseSecret(secret), !.pc = "resolve"])

\* Mutant: the lock not taken, callers enter the critical section together.
MuNeverHeld == TRUE

\* r.mu.Lock() can proceed
MuFree == mu = ""

\* A call of getHydraClientForClient by the pass of r: on an error the pass
\* becomes onErr, else onOk with the instance in hc.
Resolve(r, onErr, onOk) ==
  /\ MuFree
  /\ UNCHANGED <<mu, HydraClient, world>>
  /\ \E factoryOk \in Outcomes("factory") :
       LET res == getHydraClientForClient(Obj(r), factoryOk) IN
       /\ oauth2Clients' = res.clients
       /\ made' = res.made
       /\ IF res.err
          THEN Goto(r, [onErr EXCEPT !.failed = @ \cup {"resolve"}])
          ELSE Goto(r, [onOk EXCEPT !.hc = res.inst])

\* Reconcile lines 200-212
ResolveClient(r) ==
  /\ proc[r].pc = "resolve"
  /\ UNCHANGED <<store, secrets, reg>>
  /\ Resolve(r, ToStatus(proc[r], StatusInvalidHydraAddress, "nil"),
                [proc[r] EXCEPT !.pc = "getClient"])

\* Reconcile lines 214-244: GetOAuth2Client and the branch on its result
GetOAuth2Client(r) ==
  /\ proc[r].pc = "getClient"
  /\ UNCHANGED <<store, secrets, reg, oauth2Clients, made, mu, HydraClient, world>>
  /\ \E ok \in Outcomes("get") :
       LET p == [proc[r] EXCEPT !.ops = @ \cup {"get"}]
           g == RegOf(proc[r].hc)
           id == proc[r].cred.id IN
       IF ~ok THEN Goto(r, Fails(p, "get"))
       ELSE IF RegHas(g, id)
            THEN LET q == [p EXCEPT !.found = TRUE, !.fetchedOwner = reg[g][id].owner] IN
                 IF Unchanged(store[r]) THEN Goto(r, Returns(q, "nil"))
                 ELSE IF OwnerConflict(reg[g][id], store[r])
                      THEN Goto(r, ToStatus(q, StatusInvalidSecret, "nil"))
                      ELSE Goto(r, [q EXCEPT !.pc = "updateResolve"])
            ELSE Goto(r, EnterUnregister(p, store[r], "register"))

\* updateRegisteredOAuth2Client lines 318-329
UpdateResolve(r) ==
  /\ proc[r].pc = "updateResolve"
  /\ UNCHANGED <<store, secrets, reg>>
  /\ Resolve(r, ResolveFailed(proc[r]),
                IF FromOAuth2ClientFails(store[r])
                THEN [ToStatus(proc[r], StatusUpdateFailed, "err") EXCEPT !.failed = @ \cup {"metadata"}]
                ELSE [proc[r] EXCEPT !.pc = "put"])

\* updateRegisteredOAuth2Client lines 331-336
PutOAuth2Client(r) ==
  /\ proc[r].pc = "put"
  /\ UNCHANGED <<store, secrets, oauth2Clients, made, mu, HydraClient, world>>
  /\ \E ok \in Outcomes("put") :
       LET p == [proc[r] EXCEPT !.ops = @ \cup {"put"}]
           g == RegOf(proc[r].hc)
           oj == WithCredentials(FromOAuth2Client(store[r]), proc[r].cred) IN
       IF ok /\ RegHas(g, oj.id)
       THEN /\ reg' = RegPut(g, oj.id, EntryOf(oj))
            /\ Goto(r, [p EXCEPT !.pc = "clear"])
       ELSE /\ UNCHANGED reg
            /\ Goto(r, [ToStatus(p, StatusUpdateFailed, "clear") EXCEPT !.failed = @ \cup {"put"}])

\* unregisterOAuth2Clients lines 347-350
UnregisterResolve(r) ==
  /\ proc[r].pc = "unregisterResolve"
  /\ UNCHANGED <<store, secrets, reg>>
  /\ Resolve(r, ResolveFailed(proc[r]), [proc[r] EXCEPT !.pc = "list"])

\* unregisterOAuth2Clients lines 352-357: ListOAuth2Client and the owner filter
ListOAuth2Client(r) ==
  /\ proc[r].pc = "list"
  /\ UNCHANGED <<store, secrets, reg, oauth2Clients, made, mu, HydraClient, world>>
  /\ \E ok \in Outcomes("list") :
       LET p == [proc[r] EXCEPT !.ops = @ \cup {"list"}]
           g == RegOf(proc[r].hc)
           owned == {id \in DOMAIN reg[g] : OwnedBy(reg[g][id], Obj(r))} IN
       IF ~ok THEN Goto(r, Fails(p, "list"))
       ELSE IF owned = {} THEN Goto(r, AfterUnregister(p))
       ELSE Goto(r, [p EXCEPT !.todo = owned, !.pc = "delete"])

\* unregisterOAuth2Clients lines 357-365: one DeleteOAuth2Client of the loop
DeleteOAuth2Client(r) ==
  /\ proc[r].pc = "delete"
  /\ UNCHANGED <<store, secrets, oauth2Clients, made, mu, HydraClient, world>>
  /\ \E ok \in Outcomes("delete"), id \in proc[r].todo :
       LET p == [proc[r] EXCEPT !.ops = @ \cup {"delete"}, !.todo = @ \ {id}]
           g == RegOf(proc[r].hc) IN
       IF ok /\ RegHas(g, id)
       THEN /\ reg' = RegRemove(g, id)
            /\ Goto(r, IF p.todo = {} THEN AfterUnregister(p) ELSE p)
       ELSE /\ UNCHANGED reg
            /\ Goto(r, Fails([p EXCEPT !.todo = {}], "delete"))

\* Reconcile lines 169-176: removeString and r.Update; the store drops an
\* object under deletion once its last finalizer is gone.
RemoveFinalizer(r) ==
  /\ proc[r].pc = "removeFinalizer"
  /\ UNCHANGED <<secrets, reg, oauth2Clients, made, mu, HydraClient, world>>
  /\ \E ok \in Outcomes("update") :
       IF ok
       THEN /\ store' = [store EXCEPT ![r] = GoneObject(r, store[r].namespace)]
            /\ Goto(r, Returns(proc[r], "nil"))
       ELSE /\ UNCHANGED store
            /\ Goto(r, Fails(proc[r], "update"))

\* registerOAuth2Client lines 258-269
RegisterResolve(r) ==
  /\ proc[r].pc = "registerResolve"
  /\ UNCHANGED <<store, secrets, reg>>
  /\ Resolve(r, ResolveFailed(proc[r]),
                IF FromOAuth2ClientFails(store[r])
                THEN [ToStatus(proc[r], StatusRegistrationFailed, "err") EXCEPT !.failed = @ \cup {"metadata"}]
                ELSE [proc[r] EXCEPT !.pc = "post"])

\* registerOAuth2Client lines 271-286: PostOAuth2Client, with the credentials
\* of the secret or without any (the registry then allocates id and secret)
PostOAuth2Client(r) ==
  /\ proc[r].pc = "post"
  /\ UNCHANGED <<store, secrets, oauth2Clients, made, mu, HydraClient, world>>
  /\ \E ok \in Outcomes("post") :
       LET p == [proc[r] EXCEPT !.ops = @ \cup {"post"}]
           g == RegOf(proc[r].hc)
           oj == FromOAuth2Client(store[r]) IN
       IF ~proc[r].cred.nil
       THEN LET ojc == WithCredentials(oj, proc[r].cred) IN
            IF ok /\ ~RegHas(g, ojc.id)
            THEN /\ reg' = RegPut(g, ojc.id, EntryOf(ojc))
                 /\ Goto(r, [p EXCEPT !.pc = "clear"])
            ELSE /\ UNCHANGED reg
                 /\ Goto(r, [ToStatus(p, StatusRegistrationFailed, "clear") EXCEPT
                               !.failed = @ \cup {"post"} \cup
                                          (IF RegHas(g, ojc.id) THEN {"duplicate"} ELSE {})])
       ELSE IF ok /\ FreshIds # {}
            THEN /\ reg' = RegPut(g, FreshId, EntryOf([oj EXCEPT !.secret = GenPw]))
                 /\ Goto(r, [p EXCEPT !.pc = "createSecret",
                                      !.created = [nil |-> FALSE, id |-> FreshId, pw |-> GenPw]])
            ELSE /\ UNCHANGED reg
                 /\ Goto(r, [ToStatus(p, StatusRegistrationFailed, "nil") EXCEPT !.failed = @ \cup {"post"}])

\* registerOAuth2Client lines 288-314: r.Create of the secret
CreateSecret(r) ==
  /\ proc[r].pc = "createSecret"
  /\ UNCHANGED <<store, reg, oauth2Clients, made, mu, HydraClient, world>>
  /\ \E ok \in Outcomes("secretCreate") :
       LET name == store[r].secretName IN
       IF ok /\ ~secrets[name].present
       THEN /\ secrets' = [secrets EXCEPT ![name] =
                             [present |-> TRUE, id |-> proc[r].created.id, pw |-> proc[r].created.pw]]
            /\ Goto(r, [proc[r] EXCEPT !.pc = "clear"])
       ELSE /\ UNCHANGED secrets
            /\ Goto(r, [ToStatus(proc[r], StatusCreateSecretFailed, "clear")
                          EXCEPT !.failed = @ \cup {"secretCreate"}])

\* Mutant: the error of r.Status().Update dropped by updateClientStatus.
StatusWriteSwallowed(p) == [Returns(p, "nil") EXCEPT !.failed = @ \cup {"statusWrite"}]

\* updateClientStatus returns the error of r.Status().Update, and every caller
\* returns it in turn ("return updateErr", "return r.ensureEmptyStatusError")
StatusWriteFailed(p) == Fails(p, "statusWrite")

\* Mutant: the status persisted without stamping observedGeneration.
updateClientStatusUnstamped(c, code) == [c EXCEPT !.code = code]

\* updateClientStatus: stamp observedGeneration and persist the status
updateClientStatus(c, code) == [c EXCEPT !.observedGeneration = c.generation, !.code = code]

\* updateReconciliationStatusError, and what its caller does with the result
UpdateStatusError(r) ==
  /\ proc[r].pc = "status"
  /\ UNCHANGED <<secrets, reg, oauth2Clients, made, mu, HydraClient, world>>
  /\ \E ok \in Outcomes("statusWrite") :
       LET p == proc[r] IN
       IF ok
       THEN /\ store' = [store EXCEPT ![r] = updateClientStatus(store[r], p.stCode)]
            /\ LET q == [p EXCEPT !.wrote = Append(@, p.stCode)] IN
               CASE p.stNext = "nil" -> Goto(r, Returns(q, "nil"))
                 [] p.stNext = "err" -> Goto(r, Returns(q, "err"))
                 [] OTHER -> Goto(r, [q EXCEPT !.pc = "clear"])
       ELSE /\ UNCHANGED store
            /\ Goto(r, StatusWriteFailed(p))

\* ensureEmptyStatusError, whose result the pass returns
EnsureEmptyStatusError(r) ==
  /\ proc[r].pc = "clear"
  /\ UNCHANGED <<secrets, reg, oauth2Clients, made, mu, HydraClient, world>>
  /\ \E ok \in Outcomes("statusWrite") :
       IF ok
       THEN /\ store' = [store EXCEPT ![r] = updateClientStatus(store[r], "")]
            /\ Goto(r, Returns([proc[r] EXCEPT !.wrote = Append(@, "")], "nil"))
       ELSE /\ UNCHANGED store
            /\ Goto(r, StatusWriteFailed(proc[r]))

\* The pass has returned; the scheduler may start the next one.
Return(r) ==
  /\ proc[r].pc = "done"
  /\ Goto(r, Idle)
  /\ UNCHANGED <<store, secrets, reg, oauth2Clients, made, mu, HydraClient, world>>

\* ------------------------------------- getHydraClientForClient, stepped
\* The same function one statement at a time, for callers that run it
\* concurrently: what r.mu serialises.
CacheAdmins ==
  {NoAdmin, Admin1, [Admin1 EXCEPT !.port = 4444], [Admin1 EXCEPT !.forwardedProto = "http"]}

\* A pass calls getHydraClientForClient(oauth2client) with some spec.HydraAdmin.
GhCall(r) ==
  /\ proc[r].pc \in {"idle", "ghReturned"}
  /\ \E ad \in CacheAdmins : store' = [store EXCEPT ![r].hydraAdmin = ad]
  /\ Goto(r, [Idle EXCEPT !.pc = "ghCall"])
  /\ UNCHANGED <<secrets, reg, oauth2Clients, made, mu, HydraClient, world>>

\* lines 435-439: no custom url, the default client or an error
GhDefault(r) ==
  /\ proc[r].pc = "ghCall"
  /\ store[r].hydraAdmin.url = ""
  /\ Goto(r, [proc[r] EXCEPT !.pc = "ghReturned", !.ret = IF ~HydraClient THEN "err" ELSE "nil"])
  /\ UNCHANGED <<store, secrets, reg, oauth2Clients, made, mu, HydraClient, world>>

\* lines 413-421: build the key, r.mu.Lock()
GhLock(r) ==
  /\ proc[r].pc = "ghCall"
  /\ store[r].hydraAdmin.url # ""
  /\ MuFree
  /\ mu' = r
  /\ Goto(r, [proc[r] EXCEPT !.pc = "ghLookup"])
  /\ UNCHANGED <<store, secrets, reg, oauth2Clients, made, HydraClient, world>>

\* lines 422-424: the map lookup
GhLookup(r) ==
  /\ proc[r].pc = "ghLookup"
  /\ LET key == clientKey(store[r]) IN
     IF key \in DOMAIN oauth2Clients
     THEN Goto(r, [proc[r] EXCEPT !.pc = "ghUnlock", !.hc = oauth2Clients[key], !.ret = "nil"])
     ELSE Goto(r, [proc[r] EXCEPT !.pc = "ghFactory"])
  /\ UNCHANGED <<store, secrets, reg, oauth2Clients, made, mu, HydraClient, world>>

\* lines 426-429: r.oauth2ClientFactory(spec, "", false)
GhFactory(r) ==
  /\ proc[r].pc = "ghFactory"
  /\ \E factoryOk \in Outcomes("factory") :
       IF factoryOk
       THEN /\ made' = Append(made, store[r].hydraAdmin)
            /\ Goto(r, [proc[r] EXCEPT !.pc = "ghInsert", !.hc = Len(made) + 1])
       ELSE /\ UNCHANGED made
            /\ Goto(r, [proc[r] EXCEPT !.pc = "ghUnlock", !.ret = "err", !.failed = {"factory"}])
  /\ UNCHANGED <<store, secrets, reg, oauth2Clients, mu, HydraClient, world>>

\* Mutant: the insert replacing the map by one holding the new entry only.
GhInsertEvicting(r) ==
  /\ proc[r].pc = "ghInsert"
  /\ oauth2Clients' = [k \in {clientKey(store[r])} |-> proc[r].hc]
  /\ Goto(r, [proc[r] EXCEPT !.pc = "ghUnlock", !.ret = "nil"])
  /\ UNCHANGED <<store, secrets, reg, made, mu, HydraClient, world>>

\* lines 431-432: r.oauth2Clients[key] = client
GhInsert(r) ==
  /\ proc[r].pc = "ghInsert"
  /\ LET key == clientKey(store[r]) IN
     oauth2Clients' = [k \in DOMAIN oauth2Clients \cup {key} |->
                         IF k = key THEN proc[r].hc ELSE oauth2Clients[k]]
  /\ Goto(r, [proc[r] EXCEPT !.pc = "ghUnlock", !.ret = "nil"])
  /\ UNCHANGED <<store, secrets, reg, made, mu, HydraClient, world>>

\* line 421: the deferred r.mu.Unlock(), as the function returns
GhUnlock(r) ==
  /\ proc[r].pc = "ghUnlock"
  /\ mu' = ""
  /\ Goto(r, [proc[r] EXCEPT !.pc = "ghReturned"])
  /\ UNCHANGED <<store, secrets, reg, oauth2Clients, made, HydraClient, world>>

\* ------------------------------------------------------- the environment
\* Users and the store act on a resource between its passes: a write that
\* lands during a pass is, to that pass, a failed write of its own followed by
\* the same edit, and every write of a pass may fail.
Quiet(r) == proc[r].pc = "idle"

\* The spec fields users edit, the secrets they write by hand, the calls that
\* can fail.
Fields == {"scope", "hydraAdmin", "metadata", "authMethod"}
AuthMethods == {"none", "client_secret_basic"}
HandWritten == {[present |-> TRUE, id |-> id, pw |-> pw] : id \in {Missing, UserId}, pw \in {Missing, UserPw}}
ValidSecret == [present |-> TRUE, id |-> UserId, pw |-> UserPw]
StoreCalls == {"storeGet", "update", "secretGet", "secretCreate", "statusWrite"}
RegistryCalls == {"get", "list", "delete", "post", "put"}
Calls == StoreCalls \cup RegistryCalls \cup {"factory"}

\* The specs one edit of field f can turn c into.
Edited(c, f) ==
  CASE f = "scope" -> {[c EXCEPT !.scope = sc] : sc \in Scopes \ {c.scope}}
    [] f = "hydraAdmin" -> {[c EXCEPT !.hydraAdmin = ad] : ad \in Admins \ {c.hydraAdmin}}
    [] f = "metadata" -> {[c EXCEPT !.metadataOK = ~@]}
    [] OTHER -> {[c EXCEPT !.authMethod = am] : am \in AuthMethods \ {c.authMethod}}

\* A user changes the spec; the store bumps metadata.generation.
EditSpec(r) ==
  /\ Quiet(r)
  /\ store[r].exists /\ ~store[r].deleting
  /\ store[r].generation < MaxGen
  /\ \E f \in world.edits[r] : \E c \in Edited(store[r], f) :
       store' = [store EXCEPT ![r] = [c EXCEPT !.generation = @ + 1]]
  /\ UNCHANGED <<secrets, reg, oauth2Clients, made, mu, HydraClient, proc, world>>

\* A user deletes the resource: with a finalizer on it (this controller's or,
\* held, somebody else's) the store only marks it.
RequestDelete(r) ==
  /\ Quiet(r)
  /\ store[r].exists /\ ~store[r].deleting
  /\ \E held \in BOOLEAN :
       store' = [store EXCEPT ![r] = IF store[r].finalizer \/ held
                                      THEN [@ EXCEPT !.deleting = TRUE]
                                      ELSE GoneObject(r, store[r].namespace)]
  /\ UNCHANGED <<secrets, reg, oauth2Clients, made, mu, HydraClient, proc, world>>

\* The holder of the other finalizer lets go: the marked object, which does
\* not carry this controller's finalizer, leaves the store.
Release(r) ==
  /\ Quiet(r)
  /\ store[r].exists /\ store[r].deleting /\ ~store[r].finalizer
  /\ store' = [store EXCEPT ![r] = GoneObject(r, store[r].namespace)]
  /\ UNCHANGED <<secrets, reg, oauth2Clients, made, mu, HydraClient, proc, world>>

\* A user writes the secret the resource names, by hand.
SetSecret(r) ==
  /\ Quiet(r)
  /\ Known(r)
  /\ \E sec \in world.writes[r] :
       /\ secrets[SecretNameOf(r)] # sec
       /\ secrets' = [secrets EXCEPT ![SecretNameOf(r)] = sec]
  /\ UNCHANGED <<store, reg, oauth2Clients, made, mu, HydraClient, proc, world>>

\* The secret is deleted (by a user, or collected with its owner).
DeleteSecret(r) ==
  /\ Quiet(r)
  /\ NoSecret \in world.writes[r]
  /\ secrets[SecretNameOf(r)].present
  /\ secrets' = [secrets EXCEPT ![SecretNameOf(r)] = NoSecret]
  /\ UNCHANGED <<store, reg, oauth2Clients, made, mu, HydraClient, proc, world>>

\* ---------------------------------------------------------- specification
\* The state New() leaves: an empty cache, the default client configured or
\* not; no registry entries, no secrets.
Fresh ==
  /\ secrets = [s \in SecretNames |-> NoSecret]
  /\ reg = [g \in Regs |-> << >>]
  /\ oauth2Clients = << >>
  /\ made = << >>
  /\ mu = ""
  /\ proc = [r \in Res |-> Idle]

\* One resource with every kind of edit and fault around it; the other name
\* was never stored.
Init ==
  /\ Fresh
  /\ store = [r \in Res |-> IF r = "a" THEN NewObject(r, DefaultNamespace) ELSE ZeroObject]
  /\ HydraClient \in BOOLEAN
  /\ world = [edits |-> [r \in Res |-> Fields],
              writes |-> [r \in Res |-> HandWritten \cup {NoSecret}],
              faults |-> Calls]

\* Two resources side by side on the default registry, whose users write the
\* same client id into both secrets; registry calls can fail.
InitDuo ==
  /\ Fresh
  /\ store = [r \in Res |-> NewObject(r, DefaultNamespace)]
  /\ HydraClient = TRUE
  /\ world = [edits |-> [r \in Res |-> IF r = "a" THEN {"scope"} ELSE {}],
              writes |-> [r \in Res |-> IF r = "a" THEN {ValidSecret, NoSecret} ELSE {ValidSecret}],
              faults |-> RegistryCalls]

Next ==
  \E r \in Res :
    \/ ReconcileGet(r)
    \/ AddFinalizer(r)
    \/ GetSecret(r)
    \/ ResolveClient(r)
    \/ GetOAuth2Client(r)
    \/ UpdateResolve(r)
    \/ PutOAuth2Client(r)
    \/ UnregisterResolve(r)
    \/ ListOAuth2Client(r)
    \/ DeleteOAuth2Client(r)
    \/ RemoveFinalizer(r)
    \/ RegisterResolve(r)
    \/ PostOAuth2Client(r)
    \/ CreateSecret(r)
    \/ UpdateStatusError(r)
    \/ EnsureEmptyStatusError(r)
    \/ Return(r)
    \/ EditSpec(r)
    \/ RequestDelete(r)
    \/ Release(r)
    \/ SetSecret(r)
    \/ DeleteSecret(r)

Spec == Init /\ [][Next]_vars

\* Concurrent callers of getHydraClientForClient; the factory can fail.
InitCache ==
  /\ Fresh
  /\ store = [r \in Res |-> NewObject(r, DefaultNamespace)]
  /\ HydraClient \in BOOLEAN
  /\ world = [edits |-> [r \in Res |-> {}], writes |-> [r \in Res |-> {}], faults |-> {"factory"}]

NextCache ==
  \E r \in Res :
    \/ GhCall(r)
    \/ GhDefault(r)
    \/ GhLock(r)
    \/ GhLookup(r)
    \/ GhFactory(r)
    \/ GhInsert(r)
    \/ GhUnlock(r)

SpecCache == InitCache /\ [][NextCache]_vars

SpecDuo == InitDuo /\ [][Next]_vars

\* The steps of the pass of r.
Pass(r) ==
  \/ ReconcileGet(r)
  \/ AddFinalizer(r)
  \/ GetSecret(r)
  \/ ResolveClient(r)
  \/ GetOAuth2Client(r)
  \/ UpdateResolve(r)
  \/ PutOAuth2Client(r)
  \/ UnregisterResolve(r)
  \/ ListOAuth2Client(r)
  \/ DeleteOAuth2Client(r)
  \/ RemoveFinalizer(r)
  \/ RegisterResolve(r)
  \/ PostOAuth2Client(r)
  \/ CreateSecret(r)
  \/ UpdateStatusError(r)
  \/ EnsureEmptyStatusError(r)
  \/ Return(r)

\* One resource whose secret only the controller writes, the default client
\* configured; its user edits the scope and deletes it; store and registry
\* calls can fail.
InitLive ==
  /\ Fresh
  /\ store = [r \in Res |-> IF r = "a" THEN NewObject(r, DefaultNamespace) ELSE ZeroObject]
  /\ HydraClient = TRUE
  /\ world = [edits |-> [r \in Res |-> {"scope"}],
              writes |-> [r \in Res |-> {}],
              faults |-> StoreCalls \cup RegistryCalls]

NextLive ==
  \E r \in Res :
    \/ Pass(r)
    \/ EditSpec(r)
    \/ RequestDelete(r)
    \/ Release(r)

\* The work queue runs a started handler to its return and hands every
\* identity to the handler again (after a returned error, after a store write,
\* on resync): a pass step that stays possible is taken.
Fairness == \A r \in Res : WF_vars(Pass(r))

SpecLive == InitLive /\ [][NextLive]_vars /\ Fairness

\* Resource a in the controller's namespace and resource b in another one,
\* where b may carry the finalizer already (stored by a controller that
\* watched that namespace); users edit, delete and write secrets on both
\* sides; registry calls can fail.
InitNs ==
  /\ Fresh
  /\ \E f \in BOOLEAN :
       store = [r \in Res |-> IF r = "a" THEN NewObject(r, DefaultNamespace)
                                        ELSE [NewObject(r, "other") EXCEPT !.finalizer = f]]
  /\ HydraClient = TRUE
  /\ world = [edits |-> [r \in Res |-> {"scope"}],
              writes |-> [r \in Res |-> IF r = "a" THEN {ValidSecret, NoSecret} ELSE {ValidSecret}],
              faults |-> RegistryCalls]

SpecNs == InitNs /\ [][Next]_vars

\* ------------------------------------------------------------------ claims
Done(r) == proc[r].pc = "done"
Mutations == {"post", "put", "delete"}
Last(seq) == seq[Len(seq)]

\* An entry owned by r is overwritten or removed in this step.
OwnEntryTouched(r) ==
  \E g \in Regs : \E id \in DOMAIN reg[g] :
    /\ reg[g][id].owner = OwnerOf(store[r])
    /\ id \notin DOMAIN reg'[g] \/ reg'[g][id] # reg[g][id]

\* C1: under every interleaving of the passes of distinct resources, an entry
\* whose owner is "<name>/<namespace>" of resource r is overwritten or removed
\* only by a step of r's own pass, at its PutOAuth2Client or DeleteOAuth2Client;
\* never by the pass of another resource, even one whose secret holds the
\* same client_id.
C1_Ownership ==
  [][\A r \in Res : OwnEntryTouched(r) =>
        /\ proc'[r] # proc[r]
        /\ proc[r].pc \in {"put", "delete"}]_vars

\* C1 witness: a pass of q fetched, by the client_id of its secret, the entry
\* that r owns, while r's own pass has just updated it; the entry is still r's.
C1_Witness ==
  \E r \in Res : \E q \in Res \ {r} :
    /\ Done(q) /\ proc[q].found /\ proc[q].fetchedOwner = OwnerOf(store[r])
    /\ secrets[SecretNameOf(q)].id = UserId
    /\ Done(r) /\ "put" \in proc[r].ops /\ proc[r].failed = {}
    /\ RegHas(NoAdmin.url, UserId) /\ reg[NoAdmin.url][UserId].owner = OwnerOf(store[r])

\* C2 as claimed: whatever generation and observedGeneration are, a pass that
\* fetched by the secret's client_id an entry with another owner leaves the
\* status at INVALID_SECRET with observedGeneration = generation, has made no
\* registry mutation and has returned nil (its status write not failing).
C2_ConflictAlwaysRecorded ==
  \A r \in Res :
    (/\ Done(r) /\ proc[r].found /\ proc[r].fetchedOwner # OwnerOf(store[r])
     /\ "statusWrite" \notin proc[r].failed)
    => /\ store[r].code = StatusInvalidSecret
       /\ store[r].observedGeneration = store[r].generation
       /\ proc[r].ops \cap Mutations = {}
       /\ proc[r].ret = "nil"

\* C3: the finalizer leaves a resource only in a step of its deletion pass
\* that follows a resolved client, a successful list and successful deletes of
\* everything listed; a deletion pass in which any call failed returns an
\* error with the finalizer and the deletion mark still on the resource; and
\* the next pass of a resource under deletion that carries the finalizer
\* starts the unregistration again.
C3_DeletionSafety ==
  [][\A r \in Res :
       /\ (store[r].finalizer /\ ~store'[r].finalizer) =>
            /\ store[r].deleting
            /\ proc[r].pc = "removeFinalizer" /\ proc[r].ctx = "delete"
            /\ "list" \in proc[r].ops /\ proc[r].todo = {} /\ proc[r].failed = {}
            /\ proc'[r].ret = "nil"
       /\ (store[r].deleting /\ store[r].finalizer
            /\ ~Done(r) /\ proc'[r].pc = "done" /\ proc'[r].failed # {}) =>
            /\ proc'[r].ret = "err"
            /\ store'[r].finalizer /\ store'[r].deleting
       /\ (store[r].deleting /\ store[r].finalizer
            /\ proc[r].pc = "idle" /\ proc'[r].pc # "idle") =>
            \/ proc'[r].pc = "unregisterResolve"
            \/ proc'[r].pc = "done" /\ proc'[r].failed = {"storeGet"}]_vars

\* C3 witness: a deletion pass whose DeleteOAuth2Client failed has returned an
\* error and the resource still carries the finalizer.
C3_Witness ==
  \E r \in Res :
    /\ Done(r) /\ proc[r].ctx = "delete" /\ "delete" \in proc[r].failed
    /\ proc[r].ret = "err" /\ store[r].deleting /\ store[r].finalizer

\* C4 as claimed: when a deletion pass has removed the finalizer, no registry
\* (the one the resource targets now or one it targeted before its HydraAdmin
\* changed) holds an entry whose owner is that resource.
C4_NothingLeftBehind ==
  \A r \in Res :
    (Done(r) /\ proc[r].ctx = "delete" /\ proc[r].ret = "nil" /\ ~store[r].exists)
    => \A g \in Regs : \A id \in DOMAIN reg[g] : reg[g][id].owner # OwnerOf(store[r])

\* C5: a pass that read the resource with the finalizer and with generation ==
\* observedGeneration, parsed its secret and fetched by its client_id an entry
\* owned by the resource has made no create, update or delete call.
C5_Idempotence ==
  \A r \in Res :
    (/\ Done(r) /\ proc[r].hadFinalizer /\ proc[r].same /\ ~proc[r].cred.nil
     /\ proc[r].found /\ proc[r].fetchedOwner = OwnerOf(store[r]))
    => /\ proc[r].ops = {"get"}
       /\ proc[r].wrote = << >>
       /\ proc[r].ret = "nil"

\* C5 witness: such a pass has returned, and the entry is there.
C5_Witness ==
  \E r \in Res :
    /\ Done(r) /\ proc[r].hadFinalizer /\ proc[r].same /\ ~proc[r].cred.nil
    /\ proc[r].found /\ proc[r].fetchedOwner = OwnerOf(store[r])
    /\ RegHas(RegOf(proc[r].hc), proc[r].cred.id)

\* C6: with callers interleaved in any way, the factory has succeeded at most
\* once per descriptor value, a call that returned a client for a custom
\* endpoint got the instance made for exactly its descriptor, and so two
\* returned calls hold the same instance iff their descriptors are equal.
C6_CacheReuse ==
  /\ \A i, j \in 1..Len(made) : made[i] = made[j] => i = j
  /\ \A r \in Res :
       (proc[r].pc = "ghReturned" /\ proc[r].ret = "nil" /\ store[r].hydraAdmin.url # "")
       => /\ proc[r].hc \in 1..Len(made)
          /\ made[proc[r].hc] = store[r].hydraAdmin
  /\ \A r, q \in Res :
       (/\ proc[r].pc = "ghReturned" /\ proc[r].ret = "nil" /\ store[r].hydraAdmin.url # ""
        /\ proc[q].pc = "ghReturned" /\ proc[q].ret = "nil" /\ store[q].hydraAdmin.url # "")
       => (proc[r].hc = proc[q].hc <=> store[r].hydraAdmin = store[q].hydraAdmin)

\* C6 witness: two callers hold the same instance for equal descriptors while
\* the cache also holds an instance for another descriptor.
C6_Witness ==
  \E r \in Res : \E q \in Res \ {r} :
    /\ proc[r].pc = "ghReturned" /\ proc[r].ret = "nil"
    /\ proc[q].pc = "ghReturned" /\ proc[q].ret = "nil"
    /\ store[r].hydraAdmin.url # "" /\ store[r].hydraAdmin = store[q].hydraAdmin
    /\ proc[r].hc = proc[q].hc
    /\ Len(made) >= 2

\* C7 as claimed: a pass whose status writes succeeded leaves
\* CLIENT_REGISTRATION_FAILED when its PostOAuth2Client failed,
\* CLIENT_UPDATE_FAILED when its PutOAuth2Client failed, SECRET_CREATION_FAILED
\* when creating the secret failed, each with observedGeneration = generation,
\* and leaves the error cleared only if none of these failed.
C7_StatusReflectsOutcome ==
  \A r \in Res :
    (Done(r) /\ "statusWrite" \notin proc[r].failed)
    => /\ "post" \in proc[r].failed =>
            store[r].code = StatusRegistrationFailed /\ store[r].observedGeneration = store[r].generation
       /\ "put" \in proc[r].failed =>
            store[r].code = StatusUpdateFailed /\ store[r].observedGeneration = store[r].generation
       /\ "secretCreate" \in proc[r].failed =>
            store[r].code = StatusCreateSecretFailed /\ store[r].observedGeneration = store[r].generation
       /\ (proc[r].wrote # << >> /\ Last(proc[r].wrote) = "") =>
            proc[r].failed \cap {"post", "put", "secretCreate"} = {}

\* C8 as claimed: a pass that hit a missing secret field, an ownership
\* conflict or unserializable metadata, and whose status write succeeded, has
\* recorded a code and returned nil.
C8_ValidationReturnsNil ==
  \A r \in Res :
    (/\ Done(r) /\ "statusWrite" \notin proc[r].failed
     /\ \/ "metadata" \in proc[r].failed
        \/ (proc[r].wrote # << >> /\ Head(proc[r].wrote) = StatusInvalidSecret))
    => /\ proc[r].ret = "nil"
       /\ store[r].code \in {StatusInvalidSecret, StatusRegistrationFailed, StatusUpdateFailed}

\* C9 as claimed: a pass in which no registry client could be resolved
\* returns an error, whichever path it was on.
C9_ResolveErrorReturned ==
  \A r \in Res : (Done(r) /\ "resolve" \in proc[r].failed) => proc[r].ret = "err"

\* C9 amended: when no registry client can be resolved, a pass on the
\* secret-absent path or the deletion path returns an error and writes no
\* status; a pass that has parsed the secret records INVALID_HYDRA_ADDRESS with
\* observedGeneration = generation and returns nil, or returns the error of
\* that status write when it fails.
C9_ResolveError ==
  \A r \in Res :
    (Done(r) /\ "resolve" \in proc[r].failed)
    => IF proc[r].cred.nil
       THEN proc[r].ret = "err" /\ proc[r].wrote = << >>
       ELSE /\ proc[r].ops = {}
            /\ proc[r].stCode = StatusInvalidHydraAddress
            /\ "statusWrite" \in proc[r].failed => proc[r].ret = "err" /\ proc[r].wrote = << >>
            /\ "statusWrite" \notin proc[r].failed =>
                 /\ proc[r].ret = "nil"
                 /\ proc[r].wrote = <<StatusInvalidHydraAddress>>
                 /\ store[r].code = StatusInvalidHydraAddress
                 /\ store[r].observedGeneration = store[r].generation

\* C9 witness: both cases, one after the other is not one state, so the case
\* the amendment adds: the secret was parsed, the resolve failed, nil returned.
C9_Witness ==
  \E r \in Res :
    /\ Done(r) /\ "resolve" \in proc[r].failed /\ ~proc[r].cred.nil
    /\ proc[r].ret = "nil" /\ store[r].code = StatusInvalidHydraAddress

\* C10 as claimed: a pass in which a store call or a registry call failed
\* returns an error and writes nothing into the status.
C10_FailuresReturned ==
  \A r \in Res :
    (Done(r) /\ proc[r].failed \cap (StoreCalls \cup RegistryCalls) # {})
    => proc[r].ret = "err" /\ proc[r].wrote = << >>

\* C10 amended: a failed store read, finalizer update or registry get, list
\* or delete makes the pass return an error having written no status; a failed
\* status write makes it return an error; a failed PostOAuth2Client,
\* PutOAuth2Client or secret creation is instead written into the status
\* with its code, and the pass returns nil when its status writes succeed.
C10_Failures ==
  \A r \in Res :
    Done(r) =>
      /\ proc[r].failed \cap {"storeGet", "update", "secretGet", "get", "list", "delete"} # {} =>
           proc[r].ret = "err" /\ proc[r].wrote = << >>
      /\ "statusWrite" \in proc[r].failed => proc[r].ret = "err"
      /\ (proc[r].failed \cap {"post", "put", "secretCreate"} # {} /\ "statusWrite" \notin proc[r].failed) =>
           /\ proc[r].ret = "nil"
           /\ Head(proc[r].wrote) \in {StatusRegistrationFailed, StatusUpdateFailed, StatusCreateSecretFailed}

\* C10 witness: a pass whose GetOAuth2Client failed has returned the error
\* and written nothing.
C10_Witness ==
  \E r \in Res :
    /\ Done(r) /\ "get" \in proc[r].failed
    /\ proc[r].ret = "err" /\ proc[r].wrote = << >>

\* C11: a pass in which a status write failed, whether it was recording a code
\* or clearing the error, has returned an error; what the write would have
\* stored is not in the status.
C11_StatusWriteSurfaced ==
  \A r \in Res :
    (Done(r) /\ "statusWrite" \in proc[r].failed)
    => /\ proc[r].ret = "err"
       /\ Len(proc[r].wrote) <= 1
       /\ proc[r].wrote # << >> => Head(proc[r].wrote) # ""

\* C11 witness: the secret creation failed, its code was recorded, and the
\* write clearing it failed: the pass returned that error.
C11_Witness ==
  \E r \in Res :
    /\ Done(r) /\ "statusWrite" \in proc[r].failed
    /\ proc[r].wrote = <<StatusCreateSecretFailed>>
    /\ proc[r].ret = "err"

\* The registry entries of the default registry owned by r.
OwnedIds(g, r) == {id \in DOMAIN reg[g] : reg[g][id].owner = OwnerOf(store[r])}

\* r is registered and at rest: one entry on the default registry owned by r
\* with the desired scope, the secret holding that entry's id and secret,
\* the status stamped with the generation and no error, and the pass in flight
\* (if any) having made no registry call but GetOAuth2Client and no status write.
Settled(r) ==
  /\ store[r].exists /\ store[r].finalizer
  /\ store[r].observedGeneration = store[r].generation /\ store[r].code = ""
  /\ secrets[SecretNameOf(r)].present
  /\ OwnedIds(NoAdmin.url, r) = {secrets[SecretNameOf(r)].id}
  /\ reg[NoAdmin.url][secrets[SecretNameOf(r)].id] =
       [owner |-> OwnerOf(store[r]), scope |-> store[r].scope, secret |-> secrets[SecretNameOf(r)].pw]
  /\ secrets[SecretNameOf(r)].pw # Missing
  /\ proc[r].ops \subseteq {"get"} /\ proc[r].wrote = << >>

\* No call fails, the user neither edits nor deletes the resource.
Undisturbed(r) ==
  /\ proc[r].failed = {}
  /\ store[r].exists /\ ~store[r].deleting /\ store[r].generation = 1

\* C12: a new resource without secret, the default client configured: if no
\* call ever fails and the resource is left alone, then, passes being run
\* again and again, the resource is eventually registered and at rest for
\* ever: one entry with its owner and scope, the secret created from the
\* registry's answer, observedGeneration = generation with no error, and
\* passes that write nothing any more.
C12_Convergence ==
  []Undisturbed("a") => <>[]Settled("a")

\* C12 witness: registered and at rest, a later pass has fetched the entry
\* and returned nil without writing.
C12_Witness ==
  /\ Settled("a") /\ Undisturbed("a")
  /\ Done("a") /\ proc["a"].ops = {"get"} /\ proc["a"].found /\ proc["a"].ret = "nil"

\* C13 as claimed: of two resources whose secrets hold the same client_id and
\* whose passes both saw the id not found, the one whose create the registry
\* refused (the entry is the other's) ends its pass with a non-empty
\* reconciliationError, its status writes not failing; the entry stays the
\* other's.
C13_LoserKeepsError ==
  \A r \in Res :
    (/\ Done(r) /\ ~proc[r].cred.nil /\ ~proc[r].found
     /\ "duplicate" \in proc[r].failed /\ "statusWrite" \notin proc[r].failed
     /\ RegHas(NoAdmin.url, proc[r].cred.id)
     /\ reg[NoAdmin.url][proc[r].cred.id].owner # OwnerOf(store[r]))
    => store[r].code # ""

\* C14: every PostOAuth2Client and PutOAuth2Client step of the pass of r is
\* taken with r in the store, not marked for deletion and carrying the
\* finalizer there; a pass whose r.Update adding the finalizer failed has
\* returned an error with no registry call made and no finalizer stored; a
\* pass of a resource marked for deletion has made no create and no update,
\* and with the finalizer absent it has made no registry call and no store
\* write at all.
C14_WritesOnlyWhenActive ==
  [][\A r \in Res :
       /\ (proc[r].pc \in {"post", "put"} /\ proc'[r] # proc[r]) =>
            /\ ~proc[r].zero
            /\ store[r].exists /\ ~store[r].deleting /\ store[r].finalizer
       /\ (proc[r].pc = "addFinalizer" /\ "update" \in proc'[r].failed) =>
            /\ proc'[r].pc = "done" /\ proc'[r].ret = "err"
            /\ proc'[r].ops = {} /\ ~store'[r].finalizer
       /\ (store[r].deleting /\ proc'[r] # proc[r]) =>
            /\ proc'[r].ops \cap {"post", "put"} = {}
            /\ proc'[r].wrote = << >>
            /\ secrets' = secrets
       /\ (store[r].deleting /\ ~store[r].finalizer /\ proc'[r] # proc[r]) =>
            /\ proc'[r].ops = {}
            /\ store' = store /\ reg' = reg
            /\ proc'[r].pc = "done" => proc'[r].ret = IF proc'[r].failed = {} THEN "nil" ELSE "err"]_vars

\* C14 witness: a pass that found the resource without the finalizer and added
\* it has gone on to create the entry; the finalizer is in the store as the
\* entry is in the registry.
C14_Witness ==
  \E r \in Res :
    /\ Done(r) /\ ~proc[r].hadFinalizer /\ "post" \in proc[r].ops /\ "post" \notin proc[r].failed
    /\ store[r].finalizer /\ OwnedIds(NoAdmin.url, r) # {}

\* C15 as claimed: a pass that found the resource without the finalizer and
\* stored it has ended without any registry call.
C15_FinalizerOwnPass ==
  \A r \in Res :
    (Done(r) /\ ~proc[r].hadFinalizer /\ store[r].finalizer) => proc[r].ops = {}

\* The entry the registry should hold for r, by its spec and secret.
DesiredEntry(r) ==
  [owner |-> OwnerOf(store[r]), scope |-> store[r].scope, secret |-> secrets[SecretNameOf(r)].pw]

\* C16 as claimed: in every state, a resource not marked for deletion, with a
\* valid secret, observedGeneration = generation and no reconciliationError
\* has, under its secret's client_id, an entry it owns whose fields are those
\* of its spec.
C16_ObservedGenerationTruthful ==
  \A r \in Res :
    (/\ store[r].exists /\ ~store[r].deleting
     /\ secrets[SecretNameOf(r)].present
     /\ ~parseSecretFails(secrets[SecretNameOf(r)], store[r].authMethod)
     /\ store[r].observedGeneration = store[r].generation /\ store[r].code = "")
    => /\ RegHas(store[r].hydraAdmin.url, secrets[SecretNameOf(r)].id)
       /\ reg[store[r].hydraAdmin.url][secrets[SecretNameOf(r)].id] = DesiredEntry(r)

\* The spec of r is ahead of its status while the entry under its secret's
\* client_id exists and is r's.
Drifted(r) ==
  /\ store[r].exists /\ ~store[r].deleting /\ store[r].finalizer
  /\ store[r].generation > store[r].observedGeneration
  /\ secrets[SecretNameOf(r)].present
  /\ RegHas(NoAdmin.url, secrets[SecretNameOf(r)].id)
  /\ reg[NoAdmin.url][secrets[SecretNameOf(r)].id].owner = OwnerOf(store[r])
  /\ reg[NoAdmin.url][secrets[SecretNameOf(r)].id] # DesiredEntry(r)

\* The entry under the secret's client_id carries the spec's fields.
Repaired(r) ==
  /\ secrets[SecretNameOf(r)].present
  /\ RegHas(NoAdmin.url, secrets[SecretNameOf(r)].id)
  /\ reg[NoAdmin.url][secrets[SecretNameOf(r)].id] = DesiredEntry(r)

\* C17 as claimed: passes being run again and again, calls failing only
\* finitely often and the resource not being deleted, an entry that has
\* fallen behind the spec is eventually overwritten with the spec's fields.
C17_DriftRepaired ==
  (<>[](proc["a"].failed = {}) /\ [](store["a"].exists /\ ~store["a"].deleting))
  => (Drifted("a") ~> Repaired("a"))

\* C18: in every state, also after passes that stopped part-way and were
\* retried, each registry holds at most one entry owned by a resource.
C18_OneEntryPerOwner ==
  \A r \in Res : \A g \in Regs :
    store[r].name # "" => Cardinality(OwnedIds(g, r)) <= 1

\* C18 witness: a pass that found no secret and registered anew first deleted
\* the entry an earlier pass had created, and the registry holds the one new
\* entry.
C18_Witness ==
  \E r \in Res :
    /\ Done(r) /\ proc[r].ctx = "register" /\ proc[r].cred.nil
    /\ {"list", "delete", "post"} \subseteq proc[r].ops
    /\ proc[r].failed \cap {"delete", "post"} = {}
    /\ Cardinality(OwnedIds(RegOf(proc[r].hc), r)) = 1

\* C19 as claimed: a pass for an identity that is not in the store, no call
\* of it failing, has returned nil and left no entry in the default registry
\* whose owner is that identity.
C19_VanishedCleanedUp ==
  \A r \in Res :
    (Done(r) /\ proc[r].zero /\ proc[r].failed = {})
    => /\ proc[r].ret = "nil"
       /\ OwnedIds(NoAdmin.url, r) = {}

\* The pass of r has returned after reading, with the finalizer in place, a
\* secret that exists (not one it created itself).
ReadSecret(r) ==
  /\ Done(r) /\ store[r].exists /\ ~store[r].deleting /\ store[r].finalizer
  /\ proc[r].failed \cap {"storeGet", "update", "secretGet"} = {}
  /\ secrets[SecretNameOf(r)].present
  /\ ~(proc[r].cred.nil /\ proc[r].ctx = "register")

\* C20: a pass that read an existing secret took the invalid-secret exit
\* exactly when client_id is missing, or client_secret is missing and the auth
\* method is not "none"; on that exit it made no registry call and created no
\* secret, and, its status write succeeding, wrote INVALID_SECRET and
\* returned nil; otherwise its credentials are the secret's client_id and
\* client_secret, the latter absent for a secret without one.
C20_SecretValidation ==
  \A r \in Res :
    ReadSecret(r) =>
      LET sec == secrets[SecretNameOf(r)]
          bad == \/ sec.id = Missing
                 \/ sec.pw = Missing /\ store[r].authMethod # "none"
      IN /\ bad =>
              /\ proc[r].cred.nil /\ proc[r].ops = {} /\ proc[r].created.nil
              /\ "statusWrite" \in proc[r].failed => proc[r].ret = "err" /\ proc[r].wrote = << >>
              /\ "statusWrite" \notin proc[r].failed =>
                   /\ proc[r].wrote = <<StatusInvalidSecret>>
                   /\ store[r].code = StatusInvalidSecret
                   /\ store[r].observedGeneration = store[r].generation
                   /\ proc[r].ret = "nil"
         /\ ~bad =>
              /\ ~proc[r].cred.nil
              /\ proc[r].cred.id = sec.id /\ proc[r].cred.pw = sec.pw
              /\ (proc[r].wrote # << >> /\ ~proc[r].found) => Head(proc[r].wrote) # StatusInvalidSecret

\* C20 witness: with auth method "none" a secret holding only client_id was
\* accepted and the entry created from it carries no secret.
C20_Witness ==
  \E r \in Res :
    /\ ReadSecret(r) /\ store[r].authMethod = "none"
    /\ secrets[SecretNameOf(r)].id = UserId /\ secrets[SecretNameOf(r)].pw = Missing
    /\ proc[r].cred.pw = Missing /\ "post" \in proc[r].ops /\ proc[r].failed = {}
    /\ reg[RegOf(proc[r].hc)][UserId].secret = Missing

\* C21: with ControllerNamespace set, every step of a pass for a resource
\* stored in another namespace, marked for deletion or not, leaves the store
\* (finalizer, status), the secrets, the registries and the client cache as
\* they are; the pass goes from r.Get straight to its return, reading no
\* secret and making no registry call, and returns nil.
C21_NamespaceIsolation ==
  [][\A r \in Res :
       (/\ ControllerNamespace # ""
        /\ store[r].exists /\ store[r].namespace # ControllerNamespace
        /\ proc'[r] # proc[r]) =>
         /\ store' = store /\ secrets' = secrets /\ reg' = reg
         /\ oauth2Clients' = oauth2Clients /\ made' = made
         /\ proc'[r].pc \in {"done", "idle"}
         /\ proc'[r].ops = {} /\ proc'[r].wrote = << >> /\ proc'[r].cred.nil
         /\ proc'[r].failed = {}
         /\ proc'[r].pc = "done" => proc'[r].ret = "nil"]_vars

\* C21 witness: a resource of another namespace, marked for deletion and
\* carrying the finalizer, has had a pass; it returned nil and the finalizer
\* and the empty status are still there.
C21_Witness ==
  \E r \in Res :
    /\ Done(r) /\ proc[r].ret = "nil"
    /\ store[r].exists /\ store[r].namespace # ControllerNamespace
    /\ store[r].deleting /\ store[r].finalizer
    /\ store[r].observedGeneration = 0 /\ secrets[SecretNameOf(r)].present

\* C22: a step of a pass changes the secrets only by creating the secret of
\* its resource, which was absent, in the pass that found it absent and whose
\* PostOAuth2Client without credentials succeeded, with the client_id and
\* client_secret of the entry that create made; and the create of a pass that
\* read its credentials from the secret stores an entry with exactly that
\* client_id and client_secret, writes no secret and leads to no secret
\* creation.
C22_SecretsOnlyCreated ==
  [][\A r \in Res :
       LET name == SecretNameOf(r) IN
       /\ (proc'[r] # proc[r] /\ secrets' # secrets) =>
            /\ proc[r].pc = "createSecret" /\ proc[r].cred.nil /\ proc[r].ctx = "register"
            /\ "post" \in proc[r].ops /\ "post" \notin proc[r].failed
            /\ ~secrets[name].present
            /\ \A n \in SecretNames \ {name} : secrets'[n] = secrets[n]
            /\ secrets'[name] = [present |-> TRUE, id |-> proc[r].created.id, pw |-> proc[r].created.pw]
            /\ RegHas(RegOf(proc[r].hc), proc[r].created.id)
            /\ reg[RegOf(proc[r].hc)][proc[r].created.id] =
                 [owner |-> OwnerOf(store[r]), scope |-> store[r].scope, secret |-> proc[r].created.pw]
       /\ (proc[r].pc = "post" /\ ~proc[r].cred.nil /\ proc'[r] # proc[r]) =>
            /\ secrets' = secrets
            /\ proc[r].cred.id = secrets[name].id /\ proc[r].cred.pw = secrets[name].pw
            /\ proc'[r].pc # "createSecret"
            /\ reg' # reg =>
                 /\ ~RegHas(RegOf(proc[r].hc), proc[r].cred.id)
                 /\ reg' = RegPut(RegOf(proc[r].hc), proc[r].cred.id,
                                  [owner |-> OwnerOf(store[r]), scope |-> store[r].scope,
                                   secret |-> secrets[name].pw])]_vars

\* C22 witness: the pass that found no secret has created the entry and then
\* the secret, which holds the entry's client_id and client_secret.
C22_Witness ==
  \E r \in Res :
    /\ Done(r) /\ proc[r].cred.nil /\ ~proc[r].created.nil /\ proc[r].failed = {}
    /\ secrets[SecretNameOf(r)] = [present |-> TRUE, id |-> proc[r].created.id, pw |-> proc[r].created.pw]
    /\ RegHas(RegOf(proc[r].hc), proc[r].created.id)
    /\ reg[RegOf(proc[r].hc)][proc[r].created.id].secret = secrets[SecretNameOf(r)].pw

\* C23: no step replaces or removes an entry of r.oauth2Clients; a factory
\* call that fails leaves the map as it is and the call returns the error
\* after releasing the lock; a lookup that misses goes to the factory, whatever
\* failed before; and a call with an empty url returns at once the default
\* client, or an error when there is none, without taking the lock or
\* touching the map.
C23_CacheInsertOnly ==
  [][/\ \A k \in DOMAIN oauth2Clients :
          k \in DOMAIN oauth2Clients' /\ oauth2Clients'[k] = oauth2Clients[k]
     /\ \A r \in Res :
          /\ (proc[r].pc = "ghFactory" /\ "factory" \in proc'[r].failed) =>
               /\ oauth2Clients' = oauth2Clients /\ made' = made
               /\ clientKey(store[r]) \notin DOMAIN oauth2Clients'
               /\ proc'[r].pc = "ghUnlock" /\ proc'[r].ret = "err"
          /\ (proc[r].pc = "ghUnlock" /\ proc'[r] # proc[r]) =>
               /\ mu = r /\ mu' = ""
               /\ proc'[r].pc = "ghReturned" /\ proc'[r].ret = proc[r].ret
          /\ (proc[r].pc = "ghLookup" /\ proc'[r] # proc[r]
               /\ clientKey(store[r]) \notin DOMAIN oauth2Clients) =>
               proc'[r].pc = "ghFactory"
          /\ (proc[r].pc = "ghCall" /\ proc'[r] # proc[r] /\ store[r].hydraAdmin.url = "") =>
               /\ proc'[r].pc = "ghReturned"
               /\ proc'[r].ret = IF HydraClient THEN "nil" ELSE "err"
               /\ proc'[r].hc = 0
               /\ oauth2Clients' = oauth2Clients /\ made' = made /\ mu' = mu]_vars

\* C23 witness: the factory failed for a descriptor and that caller got the
\* error; another call with the same descriptor, which can only have come
\* later, had the factory called again and got a client, now in the map
\* beside an older entry; the lock is free.
C23_Witness ==
  \E r \in Res : \E q \in Res \ {r} :
    /\ proc[r].pc = "ghReturned" /\ proc[r].ret = "err" /\ proc[r].failed = {"factory"}
    /\ proc[q].pc = "ghReturned" /\ proc[q].ret = "nil"
    /\ store[q].hydraAdmin = store[r].hydraAdmin /\ store[r].hydraAdmin.url # ""
    /\ clientKey(store[q]) \in DOMAIN oauth2Clients
    /\ oauth2Clients[clientKey(store[q])] = proc[q].hc
    /\ Cardinality(DOMAIN oauth2Clients) >= 2
    /\ mu = ""

====
